---- MODULE Spec2Model ----
(***************************************************************************)
(* Model of src/model.ts: the reference tree (Model) with its file groups  *)
(* (FileItem) and match entries (ReferenceItem).                           *)
(*                                                                         *)
(* Objects are identified by numbers: FileItem g is the g-th group the     *)
(* constructor created, ReferenceItem e is the e-th entry it created.      *)
(* Strings are sequences of character codes, positions are records         *)
(* [line, character], arrays are sequences read with JavaScript's          *)
(* zero-based indices through At and IndexOf.                              *)
(***************************************************************************)
EXTENDS Integers, Sequences, FiniteSets, TLC

VARIABLES
    model,      \* "Model" when Model.create returned a tree, "undefined" otherwise
    uri,        \* Model.uri: the originating file identity (string form)
    position,   \* Model.position: the originating cursor position
    location,   \* ReferenceItem.location, per entry
    parent,     \* ReferenceItem.parent, per entry: its FileItem
    fileUri,    \* FileItem.uri, per group (string form)
    items,      \* Model.items: the attached groups, in order
    results,    \* FileItem.results, per group: its entries, in order
    document,   \* FileItem._document, per group: the state of the memoized handle
    thens,      \* callbacks registered by getDocument on a handle and not yet run
    opened,     \* per group: number of vscode.workspace.openTextDocument calls
    ret         \* the last operation: its name, arguments, outcome and the
                \* values it fired on Model._onDidChange, in order

vars == <<model, uri, position, location, parent, fileUri, items, results,
          document, thens, opened, ret>>

---------------------------------------------------------------------------
(* Bounds of the model *)

\* largest number of locations the location query returns
MaxLocs == 3

\* the same where the originating uri and position vary as well
MaxFirstLocs == 2

\* the same where documents are loaded
MaxDocLocs == 2

\* the same where the loads of three groups can follow one another
MaxPrefetchLocs == 3

\* the same where every operation is applied to the tree
MaxAllLocs == 3

---------------------------------------------------------------------------
(* Values *)

\* JavaScript's undefined, and the outcome of an operation that raised a TypeError
Undefined == [kind |-> "undefined"]
TypeError == [kind |-> "TypeError"]

\* the payload fired on the change event when the tree itself changed
TreeChanged == [kind |-> "Model"]

\* array[i] for a zero-based i; undefined outside the array
At(array, i) == IF i >= 0 /\ i < Len(array) THEN array[i + 1] ELSE Undefined

\* Array.prototype.indexOf: the zero-based index of e, -1 when absent
IndexOf(array, e) ==
    IF \E i \in 1..Len(array) : array[i] = e
    THEN (CHOOSE i \in 1..Len(array) :
            array[i] = e /\ \A j \in 1..(i - 1) : array[j] # e) - 1
    ELSE -1

\* JavaScript's % for n > 0: the remainder has the sign of the dividend
JsRem(a, n) == IF a >= 0 THEN a % n ELSE 0 - ((0 - a) % n)

\* Position.isBefore / isAfter: by line, then by character
IsBefore(p, q) ==
    \/ p.line < q.line
    \/ p.line = q.line /\ p.character < q.character

IsAfter(p, q) == IsBefore(q, p)

\* Range.contains(position): start <= position <= end
Contains(range, p) == ~IsBefore(p, range.start) /\ ~IsAfter(p, range.end)

\* a < b on strings: lexicographic by character code
RECURSIVE StrLess(_, _)
StrLess(a, b) ==
    IF Len(b) = 0 THEN FALSE
    ELSE IF Len(a) = 0 THEN TRUE
    ELSE IF Head(a) # Head(b) THEN Head(a) < Head(b)
    ELSE StrLess(Tail(a), Tail(b))

\* Object.prototype.toString of a FileItem, which defines no toString of its
\* own: "[object Object]"
ObjectToString ==
    <<91, 111, 98, 106, 101, 99, 116, 32, 79, 98, 106, 101, 99, 116, 93>>

---------------------------------------------------------------------------
(* Inputs *)

\* file identities in string form: "a", "ab", "ax", and the absent "abc", "b"
FileUris == { <<97>>, <<97, 98>>, <<97, 120>> }
OriginUris == FileUris \cup { <<97, 98, 99>>, <<98>> }

Pos(l, c) == [line |-> l, character |-> c]

\* range ends: (0,1) is before (1,0) by line although its character is larger
Positions == { Pos(0, 1), Pos(1, 0) }
CursorPositions == { Pos(0, 0), Pos(0, 1), Pos(1, 0) }

\* a vscode.Range has start <= end
Ranges ==
    { r \in [start : Positions, end : Positions] : ~IsAfter(r.start, r.end) }

Locations == [uri : FileUris, range : Ranges]

\* the locations with an empty range
PointLocations == { l \in Locations : l.range.start = l.range.end }

RECURSIVE SeqsUpTo(_, _)
SeqsUpTo(S, n) ==
    IF n = 0 THEN { <<>> }
    ELSE LET shorter == SeqsUpTo(S, n - 1)
         IN  shorter \cup { Append(s, x) : s \in { t \in shorter : Len(t) = n - 1 }, x \in S }

\* the locations with one fixed range
FileLocations == { l \in Locations : l.range = [start |-> Pos(0, 1), end |-> Pos(0, 1)] }

\* the same in two files
TwoFileLocations == { l \in FileLocations : l.uri \in { <<97>>, <<97, 98>> } }

\* the lists of locations the location query can return
FirstQueryResults == SeqsUpTo(Locations, MaxFirstLocs)
PointQueryResults == SeqsUpTo(PointLocations, MaxLocs)
FileQueryResults == SeqsUpTo(FileLocations, MaxDocLocs)
PrefetchQueryResults == SeqsUpTo(FileLocations, MaxPrefetchLocs)
AllQueryResults == SeqsUpTo(TwoFileLocations, MaxAllLocs)

---------------------------------------------------------------------------
(* Construction *)

\* Position.isBefore with the character compared before the line
IsBeforeByCharacter(p, q) ==
    \/ p.character < q.character
    \/ p.character = q.character /\ p.line < q.line

\* _compareLocations with the range starts compared by character first
_compareLocationsByCharacter(a, b) ==
    IF StrLess(a.uri, b.uri) THEN -1
    ELSE IF StrLess(b.uri, a.uri) THEN 1
    ELSE IF IsBeforeByCharacter(a.range.start, b.range.start) THEN -1
    ELSE IF IsBeforeByCharacter(b.range.start, a.range.start) THEN 1
    ELSE 0

\* Model._compareLocations: by uri string, then by range start
_compareLocations(a, b) ==
    IF StrLess(a.uri, b.uri) THEN -1
    ELSE IF StrLess(b.uri, a.uri) THEN 1
    ELSE IF IsBefore(a.range.start, b.range.start) THEN -1
    ELSE IF IsAfter(a.range.start, b.range.start) THEN 1
    ELSE 0

\* x put into the sorted array after every element that does not compare
\* greater than it
InsertSorted(sorted, x) ==
    LET before == { i \in 1..Len(sorted) : _compareLocations(x, sorted[i]) < 0 }
        k == IF before = {} THEN Len(sorted) + 1
             ELSE CHOOSE i \in before : \A j \in before : i <= j
    IN  SubSeq(sorted, 1, k - 1) \o <<x>> \o SubSeq(sorted, k, Len(sorted))

\* the constructor without its sort call
SortLocationsSkipped(locations) == locations

\* locations.sort(Model._compareLocations): Array.prototype.sort is stable, so
\* locations that compare equal keep their input order
RECURSIVE SortLocations(_)
SortLocations(locations) ==
    IF Len(locations) = 0 THEN <<>>
    ELSE InsertSorted(SortLocations(SubSeq(locations, 1, Len(locations) - 1)),
                      locations[Len(locations)])

\* references to the objects of the tree
File(g) == [kind |-> "FileItem", id |-> g]
Ref(e) == [kind |-> "ReferenceItem", id |-> e]

\* one round of the constructor's loop: a new FileItem when the uri differs
\* from the last group's, then a new ReferenceItem pushed onto the last group
PushLocation(tree, loc) ==
    LET last == Len(tree.fileUri)
        fresh == last = 0 \/ tree.fileUri[last] # loc.uri
        g == IF fresh THEN last + 1 ELSE last
        e == Len(tree.location) + 1
        grown == IF fresh THEN Append(tree.results, <<>>) ELSE tree.results
    IN  [ location |-> Append(tree.location, loc),
          parent   |-> Append(tree.parent, File(g)),
          fileUri  |-> IF fresh THEN Append(tree.fileUri, loc.uri) ELSE tree.fileUri,
          items    |-> IF fresh THEN Append(tree.items, File(g)) ELSE tree.items,
          results  |-> [grown EXCEPT ![g] = Append(@, Ref(e))] ]

EmptyTree ==
    [location |-> <<>>, parent |-> <<>>, fileUri |-> <<>>, items |-> <<>>,
     results |-> <<>>]

RECURSIVE PushAll(_, _)
PushAll(tree, sorted) ==
    IF Len(sorted) = 0 THEN tree
    ELSE PushAll(PushLocation(tree, Head(sorted)), Tail(sorted))

\* new Model(source, uri, position, locations)
Construct(locations) == PushAll(EmptyTree, SortLocations(locations))

\* the objects ever created for the tree
Groups == 1..Len(fileUri)
Entries == 1..Len(location)

Items == { File(g) : g \in Groups } \cup { Ref(e) : e \in Entries }

\* what Model.create leaves in ret: whether the query returned a list, and how
\* many locations the list had
CreateCall(found, locations) ==
    [op |-> "create", found |-> found, count |-> Len(locations)]

\* create that treats an empty list as no result
CreatedNothingFromEmpty(found, locations, u, p) ==
        LET tree == IF found THEN Construct(locations) ELSE EmptyTree
        IN  /\ model = IF found /\ Len(locations) > 0 THEN "Model" ELSE "undefined"
            /\ uri = u
            /\ position = p
            /\ location = tree.location
            /\ parent = tree.parent
            /\ fileUri = tree.fileUri
            /\ items = tree.items
            /\ results = tree.results
            /\ document = [g \in 1..Len(tree.fileUri) |-> "undefined"]
            /\ thens = {}
            /\ opened = [g \in 1..Len(tree.fileUri) |-> 0]
            /\ ret = CreateCall(found, locations)

\* the state after Model.create(u, p, source) when the query returned
\* `found`: no tree when it signalled no result, else the tree built from the
\* locations
Created(found, locations, u, p) ==
        LET tree == IF found THEN Construct(locations) ELSE EmptyTree
        IN  /\ model = IF found THEN "Model" ELSE "undefined"
            /\ uri = u
            /\ position = p
            /\ location = tree.location
            /\ parent = tree.parent
            /\ fileUri = tree.fileUri
            /\ items = tree.items
            /\ results = tree.results
            /\ document = [g \in 1..Len(tree.fileUri) |-> "undefined"]
            /\ thens = {}
            /\ opened = [g \in 1..Len(tree.fileUri) |-> 0]
            /\ ret = CreateCall(found, locations)

InitWith(origins, cursors, queries) ==
    \E u \in origins, p \in cursors :
        \/ Created(FALSE, <<>>, u, p)
        \/ \E q \in queries : Created(TRUE, q, u, p)

---------------------------------------------------------------------------
(* Removal *)

\* _del without the idx >= 0 test: splice(-1, 1) removes the last element
_delUnchecked(array, e) ==
    LET idx == IndexOf(array, e)
    IN  IF idx >= 0
        THEN SubSeq(array, 1, idx) \o SubSeq(array, idx + 2, Len(array))
        ELSE SubSeq(array, 1, Len(array) - 1)

\* Model._del: the array without its first occurrence of e
_del(array, e) ==
    LET idx == IndexOf(array, e)
    IN  IF idx >= 0
        THEN SubSeq(array, 1, idx) \o SubSeq(array, idx + 2, Len(array))
        ELSE array

\* what a remove call leaves in ret: the item, whether the first _del found
\* it in its array, and the values fired on the change event
Removed(item, array, fired) ==
    [op |-> "remove", item |-> item, found |-> IndexOf(array, item) >= 0,
     fired |-> fired]

\* remove(FileItem) that fires nothing
RemoveFileSilent(file) ==
    /\ items' = _del(items, file)
    /\ ret' = Removed(file, items, <<>>)
    /\ UNCHANGED results

\* Model.remove(item) for a FileItem
RemoveFile(file) ==
    /\ items' = _del(items, file)
    /\ ret' = Removed(file, items, <<TreeChanged>>)
    /\ UNCHANGED results

\* remove(ReferenceItem) that leaves an emptied group in the tree
RemoveRefKeepsGroup(ref) ==
    LET file == parent[ref.id]
    IN  /\ results' = [results EXCEPT ![file.id] = _del(@, ref)]
        /\ items' = items
        /\ ret' = Removed(ref, results[file.id],
                          IF Len(results'[file.id]) = 0 THEN <<TreeChanged>> ELSE <<file>>)

\* remove(ReferenceItem) that fires the tree for every removal
RemoveRefFiresTree(ref) ==
    LET file == parent[ref.id]
        left == _del(results[file.id], ref)
    IN  /\ results' = [results EXCEPT ![file.id] = left]
        /\ items' = IF Len(left) = 0 THEN _del(items, file) ELSE items
        /\ ret' = Removed(ref, results[file.id], <<TreeChanged>>)

\* Model.remove(item) for a ReferenceItem
RemoveRef(ref) ==
    LET file == parent[ref.id]
        left == _del(results[file.id], ref)
    IN  /\ results' = [results EXCEPT ![file.id] = left]
        /\ IF Len(left) = 0
           THEN /\ items' = _del(items, file)
                /\ ret' = Removed(ref, results[file.id], <<TreeChanged>>)
           ELSE /\ items' = items
                /\ ret' = Removed(ref, results[file.id], <<file>>)

Remove(item) ==
    /\ model = "Model"
    /\ IF item.kind = "FileItem" THEN RemoveFile(item) ELSE RemoveRef(item)
    /\ UNCHANGED <<model, uri, position, location, parent, fileUri,
                   document, thens, opened>>

---------------------------------------------------------------------------
(* Navigation *)

\* Model._tail: the last element, undefined for an empty array
_tail(array) == At(array, Len(array) - 1)

\* _move without the wrap-around
_moveNoWrap(file, delta) == At(items, IndexOf(items, file) + delta)

\* the closure _move of Model.move: the group delta steps from file, cyclically.
\* With no group the index is x % 0 = NaN and this.items[NaN] is undefined
_move(file, delta) ==
    IF Len(items) = 0 THEN Undefined
    ELSE At(items, JsRem(IndexOf(items, file) + delta + Len(items), Len(items)))

\* the last entry taken to be the first
TailOfIsFirst(file) == IF file = Undefined THEN TypeError ELSE At(results[file.id], 0)

\* x.results[0] and Model._tail(x.results) for x = _move(...): reading .results
\* of undefined raises a TypeError
FirstOf(file) == IF file = Undefined THEN TypeError ELSE At(results[file.id], 0)
TailOf(file) == IF file = Undefined THEN TypeError ELSE _tail(results[file.id])

\* Model.move(item, fwd): what it returns, or TypeError when it raises
move(item, fwd) ==
    LET delta == IF fwd THEN 1 ELSE -1
    IN  IF item.kind = "FileItem"
        THEN IF fwd THEN FirstOf(_move(item, delta)) ELSE TailOf(_move(item, delta))
        ELSE LET siblings == results[parent[item.id].id]
                 idx == IndexOf(siblings, item) + delta
             IN  IF idx < 0 THEN TailOf(_move(parent[item.id], delta))
                 ELSE IF idx >= Len(siblings) THEN FirstOf(_move(parent[item.id], delta))
                 ELSE At(siblings, idx)

\* move whose backward step takes the last entry off its group, as
\* results.pop() would
MovePopsTail(item, fwd) ==
    LET result == move(item, fwd)
    IN  /\ model = "Model"
        /\ ret' = [op |-> "move", item |-> item, fwd |-> fwd,
                   result |-> result, fired |-> <<>>]
        /\ results' = IF ~fwd /\ item.kind = "FileItem"
                         /\ result \notin {Undefined, TypeError}
                      THEN [results EXCEPT ![parent[result.id].id] =
                                SubSeq(@, 1, Len(@) - 1)]
                      ELSE results
        /\ UNCHANGED <<model, uri, position, location, parent, fileUri, items,
                       document, thens, opened>>

Move(item, fwd) ==
    /\ model = "Model"
    /\ ret' = [op |-> "move", item |-> item, fwd |-> fwd,
               result |-> move(item, fwd), fired |-> <<>>]
    /\ UNCHANGED <<model, uri, position, location, parent, fileUri, items,
                   results, document, thens, opened>>

\* total that counts the groups
totalCountsGroups == Len(items)

\* Model.total: the number of entries of the attached groups
RECURSIVE SumLengths(_)
SumLengths(files) ==
    IF Len(files) = 0 THEN 0
    ELSE Len(results[Head(files).id]) + SumLengths(Tail(files))

total == SumLengths(items)

Total ==
    /\ model = "Model"
    /\ ret' = [op |-> "total", result |-> total, fired |-> <<>>]
    /\ UNCHANGED <<model, uri, position, location, parent, fileUri, items,
                   results, document, thens, opened>>

\* Model.get(uri): the first attached group with that uri
get(u) ==
    LET hits == { i \in 1..Len(items) : fileUri[items[i].id] = u }
    IN  IF hits = {} THEN Undefined
        ELSE items[CHOOSE i \in hits : \A j \in hits : i <= j]

Get(u) ==
    /\ model = "Model"
    /\ ret' = [op |-> "get", uri |-> u, result |-> get(u), fired |-> <<>>]
    /\ UNCHANGED <<model, uri, position, location, parent, fileUri, items,
                   results, document, thens, opened>>

---------------------------------------------------------------------------
(* Document loading *)

\* the memoized Thenable of a group, as returned by getDocument
Handle(file) == [kind |-> "Thenable", id |-> file.id]

\* the first statement of getDocument: vscode.workspace.openTextDocument is
\* called, and its Thenable kept, when _document is not set
Memoized(file) ==
    IF document[file.id] = "undefined"
    THEN [document EXCEPT ![file.id] = "pending"]
    ELSE document

Opened(file) ==
    IF document[file.id] = "undefined"
    THEN [opened EXCEPT ![file.id] = @ + 1]
    ELSE opened

\* const item = this.parent.move(this, true)
NextOf(file) == move(file, TRUE)

\* the test without its second half
WarmUpUnchecked(item, handles) == item # Undefined

\* item && !item.parent._document
WarmUp(item, handles) ==
    item # Undefined /\ handles[parent[item.id].id] = "undefined"

\* FileItem.getDocument(warmUpNext). With warmUpNext the next group is looked
\* up at once, by this.parent.move(this, true), and a callback loading it is
\* registered on this group's handle when the next group has no handle yet. A
\* TypeError raised by move leaves the handle set and registers nothing
GetDocument(file, warmUpNext) ==
    LET item == NextOf(file)
    IN  /\ model = "Model"
        /\ document' = Memoized(file)
        /\ opened' = Opened(file)
        /\ IF ~warmUpNext
           THEN /\ thens' = thens
                /\ ret' = [op |-> "getDocument", item |-> file, warmUpNext |-> FALSE,
                           result |-> Handle(file), fired |-> <<>>]
           ELSE IF item = TypeError
           THEN /\ thens' = thens
                /\ ret' = [op |-> "getDocument", item |-> file, warmUpNext |-> TRUE,
                           result |-> TypeError, fired |-> <<>>]
           ELSE /\ thens' = IF WarmUp(item, document')
                            THEN thens \cup { <<file.id, parent[item.id].id>> }
                            ELSE thens
                /\ ret' = [op |-> "getDocument", item |-> file, warmUpNext |-> TRUE,
                           result |-> Handle(file), fired |-> <<>>]
        /\ UNCHANGED <<model, uri, position, location, parent, fileUri, items, results>>

\* the document loader fulfils the Thenable of group g
Fulfil(g) ==
    /\ document[g] = "pending"
    /\ document' = [document EXCEPT ![g] = "fulfilled"]
    /\ ret' = [op |-> "fulfil", item |-> File(g), fired |-> <<>>]
    /\ UNCHANGED <<model, uri, position, location, parent, fileUri, items, results,
                   thens, opened>>

\* the document loader rejects the Thenable of group g: the callbacks on it,
\* registered with then(onFulfilled) alone, are never called
Reject(g) ==
    /\ document[g] = "pending"
    /\ document' = [document EXCEPT ![g] = "rejected"]
    /\ thens' = { t \in thens : t[1] # g }
    /\ ret' = [op |-> "reject", item |-> File(g), fired |-> <<>>]
    /\ UNCHANGED <<model, uri, position, location, parent, fileUri, items, results,
                   opened>>

\* the callback () => item.parent.getDocument(false), registered on the
\* fulfilled handle of group g for the group h
Then(g, h) ==
    /\ <<g, h>> \in thens
    /\ document[g] = "fulfilled"
    /\ document' = Memoized(File(h))
    /\ opened' = Opened(File(h))
    /\ thens' = thens \ { <<g, h>> }
    /\ ret' = [op |-> "then", item |-> File(h), from |-> File(g),
               result |-> Handle(File(h)), fired |-> <<>>]
    /\ UNCHANGED <<model, uri, position, location, parent, fileUri, items, results>>

---------------------------------------------------------------------------
(* Nearest match *)

\* Model._prefixLen: the length of the common prefix of two strings
RECURSIVE _prefixLen(_, _)
_prefixLen(a, b) ==
    IF Len(a) > 0 /\ Len(b) > 0 /\ Head(a) = Head(b)
    THEN 1 + _prefixLen(Tail(a), Tail(b))
    ELSE 0

\* the smallest and the largest element of a non-empty set of numbers
Least(S) == CHOOSE i \in S : \A j \in S : i <= j
Greatest(S) == CHOOSE i \in S : \A j \in S : i >= j

\* steps (1) and (2) without the loop of step (1)
FirstInFileSkipsContaining(entries) ==
    LET after == { k \in 1..Len(entries) :
                     IsAfter(location[entries[k].id].range.end, position) }
    IN  IF after # {} THEN entries[Least(after)]
        ELSE entries[Len(entries)]

\* steps (1) and (2) of Model.first on the entries of the group whose uri is
\* the originating uri: the first entry containing the position, else the first
\* entry ending after it, else the last entry (lastBefore)
FirstInFile(entries) ==
    LET containing == { k \in 1..Len(entries) :
                          Contains(location[entries[k].id].range, position) }
        after == { k \in 1..Len(entries) :
                     IsAfter(location[entries[k].id].range.end, position) }
    IN  IF containing # {} THEN entries[Least(containing)]
        ELSE IF after # {} THEN entries[Least(after)]
        ELSE entries[Len(entries)]

\* step (3) of Model.first. bestValue is computed once, from the group object
\* this.items[0] converted to a string, and is not updated in the loop, so best
\* ends as the last index whose value exceeds it
FirstByPrefix ==
    LET bestValue == _prefixLen(ObjectToString, uri)
        better == { i \in 1..(Len(items) - 1) :
                      _prefixLen(fileUri[items[i + 1].id], uri) > bestValue }
        best == IF better = {} THEN 0 ELSE Greatest(better)
    IN  At(results[items[best + 1].id], 0)

\* first without step (3)
firstWithoutPrefix ==
    LET file == get(uri)
    IN  IF file # Undefined /\ Len(results[file.id]) > 0
        THEN FirstInFile(results[file.id])
        ELSE Undefined

\* Model.first(): what it returns
first ==
    IF Len(items) = 0 THEN Undefined
    ELSE LET file == get(uri)
         IN  IF file # Undefined /\ Len(results[file.id]) > 0
             THEN FirstInFile(results[file.id])
             ELSE FirstByPrefix

First ==
    /\ model = "Model"
    /\ ret' = [op |-> "first", result |-> first, fired |-> <<>>]
    /\ UNCHANGED <<model, uri, position, location, parent, fileUri, items,
                   results, document, thens, opened>>

---------------------------------------------------------------------------
(* The tree: construction, removal and navigation *)

\* navigation and removal read neither the originating uri and position nor
\* the range ends, which are fixed here
Init == InitWith({ <<97>> }, { Pos(0, 0) }, PointQueryResults)

Next ==
    \/ \E item \in Items : Remove(item)
    \/ \E item \in Items, fwd \in BOOLEAN : Move(item, fwd)
    \/ Total
    \/ \E u \in FileUris : Get(u)

Spec == Init /\ [][Next]_vars

---------------------------------------------------------------------------
(* The nearest match, for every originating uri and position *)

InitFirst == InitWith(OriginUris, CursorPositions, FirstQueryResults)

NextFirst ==
    \/ \E item \in Items : Remove(item)
    \/ First

SpecFirst == InitFirst /\ [][NextFirst]_vars

---------------------------------------------------------------------------
(* Document loading, with removals in between *)

\* document loading reads the tree's groups only: one range is enough
InitDoc == InitWith({ <<97>> }, { Pos(0, 0) }, FileQueryResults)

NextDoc ==
    \/ \E item \in Items : Remove(item)
    \/ \E g \in Groups, warmUpNext \in BOOLEAN : GetDocument(File(g), warmUpNext)
    \/ \E g \in Groups : Fulfil(g)
    \/ \E g \in Groups : Reject(g)
    \/ \E g \in Groups, h \in Groups : Then(g, h)

SpecDoc == InitDoc /\ [][NextDoc]_vars

---------------------------------------------------------------------------
(* Every operation on one tree *)

\* two files are enough for a group sequence and entry sequences that have
\* an order to keep
InitAll == InitWith({ <<97>> }, { Pos(0, 0) }, AllQueryResults)

NextAll ==
    \/ \E item \in Items : Remove(item)
    \/ \E item \in Items, fwd \in BOOLEAN : Move(item, fwd)
    \/ Total
    \/ \E u \in FileUris : Get(u)
    \/ First
    \/ \E g \in Groups, warmUpNext \in BOOLEAN : GetDocument(File(g), warmUpNext)
    \/ \E g \in Groups : Fulfil(g)
    \/ \E g \in Groups : Reject(g)
    \/ \E g \in Groups, h \in Groups : Then(g, h)

SpecAll == InitAll /\ [][NextAll]_vars

---------------------------------------------------------------------------
(* Document loading in a tree of up to three groups *)

\* the loads follow the group sequence: here whole groups are removed
InitPrefetch == InitWith({ <<97>> }, { Pos(0, 0) }, PrefetchQueryResults)

NextPrefetch ==
    \/ \E g \in Groups : Remove(File(g))
    \/ \E g \in Groups, warmUpNext \in BOOLEAN : GetDocument(File(g), warmUpNext)
    \/ \E g \in Groups : Fulfil(g)
    \/ \E g \in Groups : Reject(g)
    \/ \E g \in Groups, h \in Groups : Then(g, h)

SpecPrefetch == InitPrefetch /\ [][NextPrefetch]_vars

---------------------------------------------------------------------------
(* Auxiliary notions for the properties *)

Range(seq) == { seq[i] : i \in 1..Len(seq) }

\* the group is in the tree; the entry is in its group and its group in the tree
AttachedFile(file) == file \in Range(items)
AttachedRef(ref) ==
    /\ AttachedFile(parent[ref.id])
    /\ ref \in Range(results[parent[ref.id].id])

AttachedRefs == { ref \in { Ref(e) : e \in Entries } : AttachedRef(ref) }

StartOf(ref) == location[ref.id].range.start

\* the elements of the array `new` are elements of the array `old`, in the
\* order they have there
KeepsOrder(old, new) ==
    \A i \in 1..Len(new), j \in 1..Len(new) :
        i < j => /\ IndexOf(old, new[i]) >= 0
                 /\ IndexOf(old, new[i]) < IndexOf(old, new[j])

\* a step of remove(item), as seen from its two states
RemoveStep(item) == ret'.op = "remove" /\ ret'.item = item

---------------------------------------------------------------------------
(* Properties *)

\* C1: every group in the tree's group sequence has at least one entry, after
\* construction and after every remove call.
C1_NoEmptyAttachedGroup ==
    \A i \in 1..Len(items) : Len(results[items[i].id]) >= 1

\* C1 witness: a remove(entry) call has just emptied a group, which is detached,
\* while another group stays in the tree.
C1_Witness ==
    /\ ret.op = "remove" /\ ret.item.kind = "ReferenceItem" /\ ret.found
    /\ results[parent[ret.item.id].id] = <<>>
    /\ ~AttachedFile(parent[ret.item.id])
    /\ Len(items) >= 1

\* C2 (the claim as stated): first and move never raise an error.
C2_NavigationNeverRaises ==
    ret.op \in {"first", "move"} => ret.result # TypeError

\* C3 (the claim as stated): when no attached group has the originating uri,
\* first returns the first entry of the earliest group among those whose uri
\* shares the longest common prefix with the originating uri.
C3_FirstPicksLongestPrefix ==
    LET value(i) == _prefixLen(fileUri[items[i].id], uri)
        longest == { i \in 1..Len(items) : \A j \in 1..Len(items) : value(i) >= value(j) }
    IN  /\ ret.op = "first"
        /\ Len(items) >= 1
        /\ \A i \in 1..Len(items) : fileUri[items[i].id] # uri
        => ret.result = results[items[Least(longest)].id][1]

\* C4: from every attached entry, total applications of move in one direction
\* lead back to that entry.
RECURSIVE MoveTimes(_, _, _)
MoveTimes(item, fwd, n) ==
    IF n = 0 \/ item \in {Undefined, TypeError} THEN item
    ELSE MoveTimes(move(item, fwd), fwd, n - 1)

C4_CyclicClosure ==
    \A ref \in AttachedRefs, fwd \in BOOLEAN : MoveTimes(ref, fwd, total) = ref

\* C4 witness: after a removal, move was called on an attached entry of a tree
\* with several groups, and left the entry's group.
C4_Witness ==
    /\ ret.op = "move" /\ ret.item \in AttachedRefs
    /\ Len(items) >= 2
    /\ \E e \in Entries : ~AttachedRef(Ref(e))
    /\ ret.result \in AttachedRefs
    /\ parent[ret.result.id] # parent[ret.item.id]

\* C5 (the claim as stated): when the load of a group completes, every
\* background load waiting for it is for the group that forward navigation
\* from the group visits at that moment.
C5_PrefetchTargetAtCompletion ==
    [][\A t \in thens :
          document[t[1]] = "pending" /\ document'[t[1]] = "fulfilled" =>
              LET item == move(File(t[1]), TRUE)
              IN  /\ item \notin {Undefined, TypeError}
                  /\ parent[item.id] = File(t[2])]_vars

\* C5 (amended): the group of the background load is fixed by the call. A
\* background load is registered only by getDocument(true) on a group G, for
\* the group H that forward navigation from G visits at the moment of the call,
\* and exactly when the call does not raise and H has no handle at that moment;
\* it stays registered, whatever is removed or loaded meanwhile, until G's load
\* fails or until it runs after G's load completed, and it then opens H's
\* document only if H still has no handle.
C5_PrefetchTargetAtCall ==
    [][/\ \A t \in thens' \ thens :
             LET item == move(File(t[1]), TRUE)
             IN  /\ ret'.op = "getDocument" /\ ret'.warmUpNext
                 /\ ret'.item = File(t[1])
                 /\ item \notin {Undefined, TypeError}
                 /\ parent[item.id] = File(t[2])
                 /\ t[2] # t[1]
                 /\ document[t[2]] = "undefined"
       /\ \A g \in Groups :
             LET item == move(File(g), TRUE)
             IN  /\ ret'.op = "getDocument" /\ ret'.warmUpNext
                 /\ ret'.item = File(g)
                 /\ item \notin {Undefined, TypeError}
                 /\ parent[item.id] # File(g)
                 /\ document[parent[item.id].id] = "undefined"
                 => <<g, parent[item.id].id>> \in thens'
       /\ \A t \in thens \ thens' :
             \/ ret'.op = "reject" /\ ret'.item = File(t[1])
             \/ /\ ret'.op = "then" /\ ret'.from = File(t[1]) /\ ret'.item = File(t[2])
                /\ document[t[1]] = "fulfilled"
                /\ opened'[t[2]] =
                      opened[t[2]] + (IF document[t[2]] = "undefined" THEN 1 ELSE 0)]_vars

\* C5 witness: the background load of a group ran, and opened its document,
\* after the group had been removed from the tree that still holds the group
\* it was registered on.
C5_Witness ==
    /\ ret.op = "then"
    /\ ~AttachedFile(ret.item) /\ AttachedFile(ret.from)
    /\ opened[ret.item.id] = 1 /\ document[ret.item.id] = "pending"

\* C6 (the claim as stated): with at most one group in the tree,
\* getDocument(true) raises no error and returns the group's handle.
C6_PrefetchNeverRaises ==
    ret.op = "getDocument" /\ ret.warmUpNext /\ Len(items) <= 1
    => ret.result = Handle(ret.item)

\* C7 (the claim as stated): adjacent entries of an attached group have
\* strictly increasing range starts.
C7_EntriesStrictlyOrdered ==
    \A i \in 1..Len(items) :
        LET entries == results[items[i].id]
        IN  \A k \in 1..(Len(entries) - 1) :
                IsBefore(StartOf(entries[k]), StartOf(entries[k + 1]))

\* C7 (amended): adjacent entries of an attached group have non-decreasing
\* range starts (line, then character); equal starts may be adjacent.
C7_EntriesOrdered ==
    \A i \in 1..Len(items) :
        LET entries == results[items[i].id]
        IN  \A k \in 1..(Len(entries) - 1) :
                ~IsAfter(StartOf(entries[k]), StartOf(entries[k + 1]))

\* C7 witness: after a removal a group holds two entries with different starts
\* next to two entries of the input that had the same file and the same start.
C7_Witness ==
    /\ ret.op = "remove" /\ ret.found
    /\ \E i \in 1..Len(items) :
          LET entries == results[items[i].id]
          IN  /\ Len(entries) = 2
              /\ StartOf(entries[1]) # StartOf(entries[2])
    /\ \E e \in Entries, f \in Entries :
          /\ e # f
          /\ parent[e] = parent[f]
          /\ StartOf(Ref(e)) = StartOf(Ref(f))

\* C8: the attached groups are strictly ordered by file-identity string, so no
\* two share a file identity, and every entry of a group has the group's file
\* identity.
C8_GroupsStrictlyOrdered ==
    /\ \A i \in 1..Len(items), j \in 1..Len(items) :
          i < j => StrLess(fileUri[items[i].id], fileUri[items[j].id])
    /\ \A g \in Groups :
          \A ref \in Range(results[g]) : location[ref.id].uri = fileUri[g]

\* C8 witness: an entry with a sibling has just been removed from a tree that
\* has two groups.
C8_Witness ==
    /\ ret.op = "remove" /\ ret.found /\ ret.item.kind = "ReferenceItem"
    /\ Len(items) = 2
    /\ AttachedFile(parent[ret.item.id])

\* C9: remove(entry) of an attached entry. The group's only entry: the group
\* leaves the tree, the group count drops by one and the tree is fired once.
\* One of several: the group sequence is unchanged, only that entry leaves its
\* group and that group is fired once.
C9_RemoveEntryEffect ==
    [][\A ref \in AttachedRefs :
          RemoveStep(ref) =>
              LET file == parent[ref.id]
                  entries == results[file.id]
              IN  IF Len(entries) = 1
                  THEN /\ ~AttachedFile(file)'
                       /\ Len(items') = Len(items) - 1
                       /\ ret'.fired = <<TreeChanged>>
                  ELSE /\ items' = items
                       /\ results'[file.id] = SelectSeq(entries, LAMBDA x : x # ref)
                       /\ \A g \in Groups \ {file.id} : results'[g] = results[g]
                       /\ ret'.fired = <<file>>]_vars

\* C9 witness: an attached entry with siblings has just been removed and its
\* group was fired.
C9_Witness ==
    /\ ret.op = "remove" /\ ret.item.kind = "ReferenceItem" /\ ret.found
    /\ ret.fired = <<parent[ret.item.id]>>
    /\ AttachedFile(parent[ret.item.id])

\* C10: remove(item) of an item that is not in its claimed parent changes
\* neither the group sequence nor any entry sequence.
C10_RemoveAbsentIsNoOp ==
    [][\A item \in Items :
          /\ RemoveStep(item)
          /\ IF item.kind = "FileItem" THEN ~AttachedFile(item)
             ELSE item \notin Range(results[parent[item.id].id])
          => items' = items /\ results' = results]_vars

\* C10 witness: remove was called with an item its parent did not hold, in a
\* tree that still has entries.
C10_Witness ==
    /\ ret.op = "remove" /\ ~ret.found
    /\ total >= 1

\* C11: first returns no value exactly when the tree has no group; with at
\* least one group it returns an entry that is in the tree, whether or not a
\* group has the originating uri.
C11_FirstReturnsEntryIffGroups ==
    ret.op = "first" =>
        IF Len(items) = 0
        THEN ret.result = Undefined
        ELSE ret.result \in AttachedRefs

\* C11 witness: after a removal, first returned an entry of a tree in which no
\* group has the originating uri.
C11_Witness ==
    /\ ret.op = "first"
    /\ ret.result \in AttachedRefs
    /\ \A i \in 1..Len(items) : fileUri[items[i].id] # uri
    /\ \E e \in Entries : ~AttachedRef(Ref(e))

\* C12: when a group with the originating uri is in the tree, first returns an
\* entry of that group: the first whose range contains the position, else the
\* first whose range ends strictly after the position, else the group's last.
C12_FirstInOriginGroup ==
    \A i \in 1..Len(items) :
        ret.op = "first" /\ fileUri[items[i].id] = uri =>
            LET entries == results[items[i].id]
                range(k) == location[entries[k].id].range
                inside(k) == /\ ~IsBefore(position, range(k).start)
                             /\ ~IsAfter(position, range(k).end)
                ahead(k) == IsBefore(position, range(k).end)
                k == IndexOf(entries, ret.result) + 1
            IN  /\ k >= 1
                /\ IF \E j \in 1..Len(entries) : inside(j)
                   THEN inside(k) /\ \A j \in 1..(k - 1) : ~inside(j)
                   ELSE IF \E j \in 1..Len(entries) : ahead(j)
                   THEN ahead(k) /\ \A j \in 1..(k - 1) : ~ahead(j)
                   ELSE k = Len(entries)

\* C12 witness: first returned the first of two entries of the originating
\* file since its range contains the position, while the second is the first
\* that ends after the position.
C12_Witness ==
    /\ ret.op = "first"
    /\ \E i \in 1..Len(items) :
          LET entries == results[items[i].id]
          IN  /\ fileUri[items[i].id] = uri
              /\ Len(entries) = 2
              /\ ret.result = entries[1]
              /\ Contains(location[entries[1].id].range, position)
              /\ ~IsAfter(location[entries[1].id].range.end, position)
              /\ IsAfter(location[entries[2].id].range.end, position)


\* C13: create on an empty list of locations returns a tree with no group and
\* total 0; create returns no tree exactly when the query signalled no result.
C13_CreateFromEmptyOrNothing ==
    ret.op = "create" =>
        /\ model = "undefined" <=> ~ret.found
        /\ ret.found /\ ret.count = 0 =>
              /\ model = "Model"
              /\ items = <<>> /\ Groups = {} /\ Entries = {}
              /\ total = 0

\* C13 witness: create has returned a tree built from an empty list.
C13_Witness ==
    /\ ret.op = "create" /\ ret.found /\ ret.count = 0
    /\ model = "Model" /\ Len(items) = 0


\* C14 (the claim as stated): for every group, over all getDocument calls
\* (direct, with or without warmUpNext, and from a callback), openTextDocument
\* is called at most once, namely by the first call; every call returns the
\* group's one handle; a handle once set is never unset or replaced, only
\* settled by the loader, also when the load fails.
C14_DocumentLoadedOnce ==
    [][/\ \A g \in Groups :
             /\ opened'[g] <= 1
             /\ opened'[g] >= opened[g]
             /\ opened'[g] = (IF document'[g] = "undefined" THEN 0 ELSE 1)
             /\ document[g] # "undefined" =>
                   \/ document'[g] = document[g]
                   \/ /\ document[g] = "pending"
                      /\ ret'.op \in {"fulfil", "reject"} /\ ret'.item = File(g)
             /\ document[g] = "undefined" /\ document'[g] # "undefined" =>
                   /\ document'[g] = "pending"
                   /\ ret'.op \in {"getDocument", "then"} /\ ret'.item = File(g)
       /\ ret'.op \in {"getDocument", "then"} =>
             /\ document'[ret'.item.id] # "undefined"
             /\ ret'.result = Handle(ret'.item)]_vars


\* C15: in every state total is the number of entries of the groups in the
\* tree, and it is what the total getter returns; right after construction it
\* is the number of input locations; remove of an attached entry lowers it by
\* exactly 1, remove of an attached group with k entries by exactly k.
C15_TotalCountsAttachedEntries ==
    [][/\ total' = Cardinality(AttachedRefs)'
       /\ ret.op = "create" =>
             total = ret.count /\ total = Cardinality(AttachedRefs)
       /\ ret'.op = "total" => ret'.result = Cardinality(AttachedRefs)
       /\ ret'.op = "remove" =>
             IF ret'.item.kind = "ReferenceItem"
             THEN AttachedRef(ret'.item) => total' = total - 1
             ELSE AttachedFile(ret'.item) =>
                      total' = total - Cardinality(Range(results[ret'.item.id]))]_vars

\* C15 witness: an attached group with two entries has just been removed, and
\* entries of another group remain.
C15_Witness ==
    /\ ret.op = "remove" /\ ret.item.kind = "FileItem" /\ ret.found
    /\ Len(results[ret.item.id]) = 2
    /\ total >= 1


\* C16: for the group at index i (from 0) of the n groups in the tree, move
\* forward returns the first entry of the group at index (i + 1) mod n and move
\* backward the last entry of the group at index (i - 1) mod n; with one group
\* these are the group's own first and last entry.
C16_MoveFromGroup ==
    LET n == Len(items)
    IN  \A i \in 0..(n - 1) :
            LET next == items[((i + 1) % n) + 1]
                prev == items[((i - 1 + n) % n) + 1]
            IN  /\ move(items[i + 1], TRUE) = results[next.id][1]
                /\ move(items[i + 1], FALSE) = results[prev.id][Len(results[prev.id])]
                /\ n = 1 =>
                      /\ move(items[1], TRUE) = results[items[1].id][1]
                      /\ move(items[1], FALSE) = _tail(results[items[1].id])

\* C16 witness: move backward was called on the first of several groups and
\* returned the last of the two entries of the last group.
C16_Witness ==
    /\ ret.op = "move" /\ ~ret.fwd
    /\ Len(items) >= 2
    /\ ret.item = items[1]
    /\ Len(results[items[Len(items)].id]) = 2
    /\ ret.result = results[items[Len(items)].id][2]


\* C17: a change event is fired inside the remove call that causes it, exactly
\* one per call: every step that changes the group sequence or an entry
\* sequence is a remove call, every remove call fires exactly one value before
\* it returns (the group of the entry when the group keeps entries, else the
\* tree), and no other call fires. So
\* the events come in the order of the remove calls, none merged, none dropped.
C17_OneEventPerRemove ==
    [][/\ items' # items \/ results' # results => ret'.op = "remove"
       /\ ret'.op = "remove" =>
             /\ Len(ret'.fired) = 1
             /\ ret'.fired[1] = (IF ret'.item.kind = "FileItem" THEN TreeChanged
                                 ELSE IF results'[parent[ret'.item.id].id] = <<>>
                                 THEN TreeChanged
                                 ELSE parent[ret'.item.id])
       /\ ret'.op # "remove" => ret'.fired = <<>>]_vars

\* C17 witness: a group has just been removed, firing the tree, in a tree from
\* whose remaining groups an entry had been removed before.
C17_Witness ==
    /\ ret.op = "remove" /\ ret.item.kind = "FileItem" /\ ret.found
    /\ ret.fired = <<TreeChanged>>
    /\ \E e \in Entries :
          /\ AttachedFile(parent[e])
          /\ Ref(e) \notin Range(results[parent[e].id])


\* C18: first, move, get, total and getDocument (called directly or from a
\* callback) change neither the group sequence nor any entry sequence and
\* fire no event; only remove changes them. No step adds a group or an entry,
\* and the groups and entries that stay keep their relative order.
C18_StructureChangesOnlyByRemoval ==
    [][/\ ret'.op \in {"first", "move", "get", "total", "getDocument", "then"} =>
             /\ items' = items /\ results' = results
             /\ ret'.fired = <<>>
       /\ Groups' = Groups /\ Entries' = Entries
       /\ IF items' = items /\ results' = results THEN TRUE
          ELSE /\ ret'.op = "remove"
               /\ Range(items') \subseteq Range(items)
               /\ KeepsOrder(items, items')
               /\ \A g \in Groups :
                     /\ Range(results'[g]) \subseteq Range(results[g])
                     /\ KeepsOrder(results[g], results'[g])]_vars

\* C18 witness: getDocument was called on a group in the tree that keeps two
\* entries after a third was removed from it.
C18_Witness ==
    /\ ret.op = "getDocument"
    /\ AttachedFile(ret.item)
    /\ Len(results[ret.item.id]) = 2
    /\ \E e \in Entries :
          parent[e] = ret.item /\ Ref(e) \notin Range(results[ret.item.id])


\* C19 (the claim as stated): a getDocument(true) call on a group G opens at
\* most G's document and registers at most one background load, on G's handle;
\* it returns G's handle. The background load opens at most the document of
\* its one group and registers nothing, so no third load follows from the
\* call. The settling of a load touches the handle of its own group only.
C19_PrefetchDepthOne ==
    [][/\ ret'.op = "getDocument" =>
             /\ \A h \in Groups \ {ret'.item.id} : opened'[h] = opened[h]
             /\ opened'[ret'.item.id] <= opened[ret'.item.id] + 1
             /\ Cardinality(thens' \ thens) <= 1
             /\ thens \subseteq thens'
             /\ \A t \in thens' \ thens : ret'.warmUpNext /\ t[1] = ret'.item.id
             /\ ret'.result = Handle(ret'.item)
       /\ ret'.op = "then" =>
             /\ thens' = thens \ { <<ret'.from.id, ret'.item.id>> }
             /\ \A h \in Groups \ {ret'.item.id} :
                   opened'[h] = opened[h] /\ document'[h] = document[h]
             /\ opened'[ret'.item.id] <= opened[ret'.item.id] + 1
       /\ ret'.op \in {"fulfil", "reject"} =>
             /\ opened' = opened
             /\ thens' \subseteq thens
             /\ \A h \in Groups \ {ret'.item.id} : document'[h] = document[h]
       /\ ret'.op = "remove" =>
             opened' = opened /\ thens' = thens /\ document' = document]_vars


\* C20 (the claim as stated): whenever the tree has at least one group, move
\* returns, in either direction, an entry that is in the tree, for every group
\* and entry ever created, also the removed ones and the entries of a removed
\* group.
C20_MoveReturnsAttachedEntry ==
    Len(items) >= 1 =>
        \A item \in Items, fwd \in BOOLEAN : move(item, fwd) \in AttachedRefs

====
